---- MODULE Spec2Model ----
(***************************************************************************)
(* Model of the function-calling conversation engine of                   *)
(* src/chatgpt/chatgpt.py: the ChatGPT class (construction, the           *)
(* request/respond/dispatch loop of _get_responses_from_openai and        *)
(* _process_function_call) and the retrying request boundary              *)
(* _chat_completion_request.                                               *)
(*                                                                         *)
(* Python optionals are sequences of length 0 (None) or 1 (a value), so   *)
(* that "x is None" and "key not in dict" are comparisons TLC can make.   *)
(***************************************************************************)
EXTENDS Integers, Sequences, FiniteSets, TLC

----------------------------------------------------------------------------
(* Bounds of the exploration *)

\* number of requests one engine builds over its life, all calls together
MaxRequests == 3
\* length up to which a list shared by two engines is extended by new calls
MaxListLen == 4
\* number of parameters of the function whose schema is generated
MaxParams == 2
\* chat requests one (user, bot) pair makes
MaxChats == 3
\* create_bot requests handled
MaxBots == 2

----------------------------------------------------------------------------
(* Python values *)

None == <<>>
Some(x) == <<x>>
IsNone(x) == x = <<>>
Get(x) == x[1]

Last(s) == s[Len(s)]

\* a chat message: a dict with "role" and "content" and, optionally,
\* "name" (function results) and "function_call" (assistant requests)
SystemMsg(text) ==
    [role |-> "system", content |-> text, name |-> None, function_call |-> None]

UserMsg(text) ==
    [role |-> "user", content |-> text, name |-> None, function_call |-> None]

AssistantMsg(text) ==
    [role |-> "assistant", content |-> text, name |-> None, function_call |-> None]

AssistantCall(fn_name, arguments) ==
    [role |-> "assistant", content |-> "", name |-> None,
     function_call |-> Some([name |-> fn_name, arguments |-> arguments])]

\* variant of FunctionMessage: the "name" key is left out
FunctionMessageUnnamed(fn_name, fn_response) ==
    [role |-> "function", content |-> fn_response, name |-> None,
     function_call |-> None]

\* chatgpt.py:229  {"role": "function", "name": fn_name, "content": str(fn_response)}
FunctionMessage(fn_name, fn_response) ==
    [role |-> "function", content |-> fn_response, name |-> Some(fn_name),
     function_call |-> None]

----------------------------------------------------------------------------
(* The inputs the caller, the service and the executables can supply *)

\* user texts
Texts == {"hi"}

\* system_prompt argument: None, the empty string, a prompt
SystemPrompts == {None, Some(""), Some("p")}

\* messages argument: None, or a prior message list.  The last list is the
\* shape qa/api.py builds on a later chat call: a fresh system message put in
\* front of a stored history that already starts with one.
PriorMessages ==
    { None,
      Some(<<>>),
      Some(<<SystemMsg("p"), UserMsg("hi"), AssistantMsg("a")>>),
      Some(<<SystemMsg("p"), SystemMsg("p"), UserMsg("hi"), AssistantMsg("a")>>) }

\* a FunctionParameterProperties object (chatgpt.py:25-29)
Param(name, type, required) ==
    [name |-> name, type |-> type, description |-> "d", required |-> required]

\* a Function object: its name, its declared parameters, the executable
\* bound to it (func), the keyword names the executable accepts and those
\* it has no default for
Fn(name, parameters, func, accepts, needs) ==
    [name |-> name, parameters |-> parameters, func |-> func,
     accepts |-> accepts, needs |-> needs]

\* "f" is the function of qa/api.py: its parameter "context" is declared
\* required, and its executable has the default context=""
FnF == Fn("f", <<Param("context", "string", TRUE)>>, "exec_f", {"context"}, {})
FnF2 == Fn("f", <<Param("context", "string", TRUE)>>, "exec_f2", {"context"}, {})
FnG == Fn("g", <<Param("context", "string", TRUE)>>, "exec_g", {"context"},
          {"context"})

\* the parameter names a function declares, and those it declares required
Declared(fn) == {fn.parameters[i].name : i \in 1..Len(fn.parameters)}
Required(fn) ==
    {fn.parameters[i].name :
        i \in {k \in 1..Len(fn.parameters) : fn.parameters[k].required}}

\* functions argument: None, an empty list, one function, two functions,
\* two functions of the same name
FunctionLists == {None, Some(<<>>), Some(<<FnF>>), Some(<<FnF, FnG>>), Some(<<FnF, FnF2>>)}

\* call_fn_on_every_user_message argument
ForcedNames == {None, Some("f"), Some("g")}

\* names the service may ask for
CallNames == {"f", "g"}

\* argument payloads the service may send: text json.loads rejects, and
\* JSON objects with no key, the key "context", the key "other"
ArgPayloads == {"{bad", "{}", "{context}", "{other}"}

\* json.loads on an argument payload
JsonLoads(payload) ==
    CASE payload = "{}" -> [ok |-> TRUE, keys |-> {}]
      [] payload = "{context}" -> [ok |-> TRUE, keys |-> {"context"}]
      [] payload = "{other}" -> [ok |-> TRUE, keys |-> {"other"}]
      [] OTHER -> [ok |-> FALSE, keys |-> {}]

\* responses of the completion service: a plain answer or a function call.
\* For "g" the payload with the key "other" is left out: wherever "g" is
\* looked up it fails as the payload without key does.
PlainResponses == {AssistantMsg("a")}
CallResponses ==
    {AssistantCall(n, a) : n \in CallNames, a \in ArgPayloads}
        \ {AssistantCall("g", "{other}")}

\* failures of one request attempt: a transient one (network, rate limit)
\* and one that retrying cannot cure (invalid credentials)
FailureKinds == {"transient", "auth"}

\* values an executable returns, already converted by str()
FnResults == {"r"}

----------------------------------------------------------------------------
(* State *)

VARIABLES
    pc,                 \* "new", "ctor_failed", "idle", "pending", "executing"
    messages,           \* self.messages
    functions,          \* self.functions
    call_fn,            \* self.call_fn_on_every_user_message
    call_kwargs,        \* the request built for the current round
    attempts,           \* attempts made by _chat_completion_request for it
    response_messages,  \* the list _get_responses_from_openai returns
    fn_name,            \* name of the function being executed
    outcome,            \* "none", "returned", or the error raised
    args,               \* history: the constructor's arguments, kept until
                        \* the first __call__
    pre,                \* history: self.messages when __call__ was entered
    user_message,       \* history: the text given to __call__
    nreq,               \* history: requests built during this __call__
    calls,              \* history: executables invoked during this __call__,
                        \* each with the keywords it was called with
    failures,           \* history: failure of the latest attempt, or "none"
    submits,            \* history: number of __call__ invocations
    requests            \* history: number of requests built by this engine

engine_vars == <<pc, messages, functions, call_fn, call_kwargs, attempts,
                 response_messages, fn_name, outcome, args, pre, user_message,
                 nreq, calls, failures, submits, requests>>

\* two engines built by one caller (section "Two engines")
VARIABLES
    lists,              \* the list objects: identity -> content
    ref,                \* engine -> identity of the list its self.messages is
    pc2,                \* engine -> "idle", "pending", "executing"
    actor,              \* history: the engine the latest step belongs to
    before              \* history: engine -> its transcript before that step

two_vars == <<lists, ref, pc2, actor, before>>

\* one FunctionParameters object (section "Function schema")
VARIABLES
    properties,         \* FunctionParameters.properties
    schema              \* the value FunctionParameters.json gave, or None

schema_vars == <<properties, schema>>

\* the chat endpoint of qa/api.py (section "Chat endpoint")
VARIABLES
    history,            \* db[history_db_key] of history.db, None when absent
    user_context,       \* db[user_id] of user.db
    given,              \* history: llm.messages right after construction
    chats               \* history: number of chat requests handled

chat_vars == <<history, user_context, given, chats>>

\* the bot store of qa/api.py (section "Bot creation")
VARIABLES
    bots,               \* bot.db: the set of entries [id, system_prompt]
    bots_before,        \* history: bot.db before the latest create_bot
    bot_result          \* history: "none", or how that create_bot ended

bot_vars == <<bots, bots_before, bot_result>>

vars == <<engine_vars, two_vars, schema_vars, chat_vars, bot_vars>>

\* the parts of the state a specification does not use stay as they are here
TwoParked ==
    /\ lists = <<>>
    /\ ref = <<>>
    /\ pc2 = <<>>
    /\ actor = ""
    /\ before = <<>>

SchemaParked ==
    /\ properties = <<>>
    /\ schema = None

ChatParked ==
    /\ history = None
    /\ user_context = ""
    /\ given = <<>>
    /\ chats = 0

BotParked ==
    /\ bots = {}
    /\ bots_before = {}
    /\ bot_result = "none"

NoRequest == [messages |-> <<>>, functions |-> None, function_call |-> None]

NoArgs == [messages |-> None, system_prompt |-> None, functions |-> None,
           call_fn |-> None, api_key |-> TRUE]

EngineInit ==
    /\ pc = "new"
    /\ messages = <<>>
    /\ functions = None
    /\ call_fn = None
    /\ call_kwargs = NoRequest
    /\ attempts = 0
    /\ response_messages = <<>>
    /\ fn_name = ""
    /\ outcome = "none"
    /\ args = NoArgs
    /\ pre = <<>>
    /\ user_message = ""
    /\ nreq = 0
    /\ calls = <<>>
    /\ failures = "none"
    /\ submits = 0
    /\ requests = 0

EngineParked == EngineInit

Init == EngineInit /\ TwoParked /\ SchemaParked /\ ChatParked /\ BotParked

----------------------------------------------------------------------------
(* Construction: ChatGPT.__init__ *)

\* "if system_prompt" : a prompt that is neither None nor the empty string
Truthy(system_prompt) == ~IsNone(system_prompt) /\ Get(system_prompt) # ""

\* variant of InitializeMessages: a message list wins over a prompt
InitializeMessagesPreferMessages(msgs, system_prompt) ==
    IF IsNone(msgs)
    THEN [ok |-> TRUE,
          messages |-> IF Truthy(system_prompt)
                       THEN <<SystemMsg(Get(system_prompt))>> ELSE <<>>]
    ELSE [ok |-> TRUE, messages |-> Get(msgs)]

\* chatgpt.py:144-160.  ok = FALSE is the ValueError of line 160.
InitializeMessages(msgs, system_prompt) ==
    IF IsNone(msgs)
    THEN [ok |-> TRUE,
          messages |-> IF Truthy(system_prompt)
                       THEN <<SystemMsg(Get(system_prompt))>> ELSE <<>>]
    ELSE IF IsNone(system_prompt)
         THEN [ok |-> TRUE, messages |-> Get(msgs)]
         ELSE [ok |-> FALSE, messages |-> <<>>]

\* [func.name for func in self.functions]
FunctionNames(fns) == {fns[i].name : i \in 1..Len(fns)}

\* variant of ForcedCheck: the name is not looked up in the list
ForcedCheckNoLookup(fns, forced) ==
    IF IsNone(forced) THEN "none"
    ELSE IF IsNone(fns) THEN "NoFunctions"
    ELSE "none"

\* chatgpt.py:136-142: the error the forced-function check raises, or "none"
ForcedCheck(fns, forced) ==
    IF IsNone(forced) THEN "none"
    ELSE IF IsNone(fns) THEN "NoFunctions"
    ELSE IF Get(forced) \notin FunctionNames(Get(fns)) THEN "ForcedNotFound"
    ELSE "none"

\* the error __init__ raises for these arguments, or "none"
\* (chatgpt.py:129 credentials, :130 messages, :136-142 forced function)
InitError(api_key, msgs, system_prompt, fns, forced) ==
    IF ~api_key THEN "NoApiKey"
    ELSE IF ~InitializeMessages(msgs, system_prompt).ok THEN "PromptAndMessages"
    ELSE ForcedCheck(fns, forced)

\* the errors of construction, all raised as ValueError
ConfigErrors == {"NoApiKey", "PromptAndMessages", "NoFunctions", "ForcedNotFound"}

Construct(api_key, msgs, system_prompt, fns, forced) ==
    /\ pc = "new"
    /\ args' = [messages |-> msgs, system_prompt |-> system_prompt,
                functions |-> fns, call_fn |-> forced, api_key |-> api_key]
    /\ LET err == InitError(api_key, msgs, system_prompt, fns, forced) IN
       IF err = "none"
       THEN /\ pc' = "idle"
            /\ messages' = InitializeMessages(msgs, system_prompt).messages
            /\ functions' = fns
            /\ call_fn' = forced
            /\ outcome' = "none"
       ELSE /\ pc' = "ctor_failed"
            /\ outcome' = err
            /\ UNCHANGED <<messages, functions, call_fn>>
    /\ UNCHANGED <<call_kwargs, attempts, response_messages, fn_name, pre,
                   user_message, nreq, calls, failures, submits, requests>>
    /\ UNCHANGED <<two_vars, schema_vars, chat_vars, bot_vars>>

----------------------------------------------------------------------------
(* The request: ChatGPT.json and the call_kwargs of the loop *)

\* chatgpt.py:162-176: the "functions" key is present when self.functions
\* is not None; each function is represented here by its name
Json(msgs, fns) ==
    [messages |-> msgs,
     functions |-> IF IsNone(fns) THEN None
                   ELSE Some([i \in 1..Len(Get(fns)) |-> Get(fns)[i].name])]

\* variant of CallKwargs: the directive is attached whatever the last
\* message is
CallKwargsAlwaysForced(msgs, fns, forced) ==
    [messages |-> Json(msgs, fns).messages,
     functions |-> Json(msgs, fns).functions,
     function_call |-> IF ~IsNone(forced)
                       THEN Some([name |-> Get(forced)]) ELSE None]

\* chatgpt.py:193-196: a deep copy of self.json, with the forced-call
\* directive when the last message is a user message and a name is configured
CallKwargs(msgs, fns, forced) ==
    [messages |-> Json(msgs, fns).messages,
     functions |-> Json(msgs, fns).functions,
     function_call |-> IF Last(Json(msgs, fns).messages).role = "user" /\ ~IsNone(forced)
                       THEN Some([name |-> Get(forced)]) ELSE None]

\* variant of MessagesAfterRequest: the request is not a copy, and the
\* directive is written into the last message of self.messages
MessagesAfterRequestInPlace(msgs, fns, forced) ==
    IF IsNone(CallKwargs(msgs, fns, forced).function_call) THEN msgs
    ELSE [msgs EXCEPT ![Len(msgs)].function_call =
                            CallKwargs(msgs, fns, forced).function_call]

\* chatgpt.py:193-196: self.messages once the request is built.  The request
\* is a copy.deepcopy of self.json and only the copy is written to.
MessagesAfterRequest(msgs, fns, forced) == msgs

----------------------------------------------------------------------------
(* The request boundary: _chat_completion_request under tenacity's @retry *)

\* stop=stop_after_attempt(3), chatgpt.py:9
StopAfterAttempt == 3

\* variant of ShouldStop: one attempt more
ShouldStopLate(n) == n > StopAfterAttempt

\* tenacity stops once the attempt number reaches the limit
ShouldStop(n) == n >= StopAfterAttempt

\* no retry= argument is given at chatgpt.py:9, so tenacity's default
\* applies: every exception is retried, whatever its kind
ShouldRetry(kind) == TRUE

----------------------------------------------------------------------------
(* Dispatch: _process_function_call up to the call of the executable *)

\* variant of MatchedFns: when no function has the name, the first one is taken
MatchedFnsOrAny(fns, name) ==
    IF SelectSeq(fns, LAMBDA f : f.name = name) = <<>>
    THEN SubSeq(fns, 1, IF Len(fns) > 0 THEN 1 ELSE 0)
    ELSE SelectSeq(fns, LAMBDA f : f.name = name)

\* chatgpt.py:219  [func for func in self.functions if func.name == fn_name]
MatchedFns(fns, name) == SelectSeq(fns, LAMBDA f : f.name = name)

\* fn.func(**fn_args), chatgpt.py:227: Python raises TypeError, without
\* running the body, for a keyword the executable does not accept or a
\* parameter without default that is not supplied
BindsTo(fn, keys) == keys \subseteq fn.accepts /\ fn.needs \subseteq keys

\* chatgpt.py:212-227: the error raised before the executable runs, or "none"
ProcessFunctionCallError(fns, response_message) ==
    LET call == Get(response_message.function_call)
        fn_args == JsonLoads(call.arguments)
        matched_fns == MatchedFns(Get(fns), call.name)
    IN  IF IsNone(fns) THEN "NoFunctions"
        ELSE IF ~fn_args.ok THEN "JSONDecodeError"
        ELSE IF Len(matched_fns) = 0 THEN "NotFound"
        ELSE IF Len(matched_fns) > 1 THEN "MultipleFound"
        ELSE IF ~BindsTo(matched_fns[1], fn_args.keys) THEN "TypeError"
        ELSE "none"

----------------------------------------------------------------------------
(* __call__ / _get_responses_from_openai *)

\* chatgpt.py:186-198: append the user message, build the first request.
\* The call may follow a call that returned or one that raised.
Submit(text) ==
    /\ pc = "idle"
    /\ requests < MaxRequests
    /\ requests' = requests + 1
    /\ submits' = submits + 1
    /\ pre' = messages
    /\ user_message' = text
    /\ messages' = MessagesAfterRequest(Append(messages, UserMsg(text)),
                                        functions, call_fn)
    /\ response_messages' = <<>>
    /\ call_kwargs' = CallKwargs(Append(messages, UserMsg(text)),
                                 functions, call_fn)
    /\ attempts' = 0
    /\ failures' = "none"
    /\ nreq' = 1
    /\ calls' = <<>>
    /\ outcome' = "none"
    /\ pc' = "pending"
    /\ args' = NoArgs
    /\ UNCHANGED <<functions, call_fn, fn_name>>
    /\ UNCHANGED <<two_vars, schema_vars, chat_vars, bot_vars>>

\* variant of AttemptFail: when the request is given up, the transcript is
\* put back to what it was before the call
AttemptFailRollback(kind) ==
    /\ pc = "pending"
    /\ attempts' = attempts + 1
    /\ failures' = kind
    /\ IF ~ShouldRetry(kind)
       THEN pc' = "idle" /\ outcome' = kind /\ messages' = pre
       ELSE IF ShouldStop(attempts')
            THEN pc' = "idle" /\ outcome' = "RetryError" /\ messages' = pre
            ELSE pc' = "pending" /\ outcome' = outcome /\ messages' = messages
    /\ UNCHANGED <<functions, call_fn, call_kwargs,
                   response_messages, fn_name, args, pre, user_message,
                   nreq, calls, submits, requests>>
    /\ UNCHANGED <<two_vars, schema_vars, chat_vars, bot_vars>>

\* one attempt of openai.ChatCompletion.create raises
AttemptFail(kind) ==
    /\ pc = "pending"
    /\ attempts' = attempts + 1
    /\ failures' = kind
    /\ IF ~ShouldRetry(kind)
       THEN pc' = "idle" /\ outcome' = kind
       ELSE IF ShouldStop(attempts')
            THEN pc' = "idle" /\ outcome' = "RetryError"
            ELSE pc' = "pending" /\ outcome' = outcome
    /\ UNCHANGED <<messages, functions, call_fn, call_kwargs,
                   response_messages, fn_name, args, pre, user_message,
                   nreq, calls, submits, requests>>
    /\ UNCHANGED <<two_vars, schema_vars, chat_vars, bot_vars>>

\* variant of LoopEnds: the loop is left after the first response
LoopEndsAlways(response_message) == TRUE

\* chatgpt.py:203-204  if "function_call" not in response_message: break
LoopEnds(response_message) == IsNone(response_message.function_call)

\* chatgpt.py:198-227: an attempt returns a response; it is appended, and
\* either the loop ends or the function call is processed up to the call of
\* the executable.  The service asks for a function call only while the
\* engine may still build a request.
AttemptSucceed(response_message) ==
    /\ pc = "pending"
    /\ ~IsNone(response_message.function_call) => requests < MaxRequests
    /\ attempts' = attempts + 1
    /\ failures' = "none"
    /\ response_messages' = Append(response_messages, response_message)
    /\ messages' = Append(messages, response_message)
    /\ IF LoopEnds(response_message)
       THEN /\ pc' = "idle"
            /\ outcome' = "returned"
            /\ UNCHANGED <<fn_name, calls>>
       ELSE LET err == ProcessFunctionCallError(functions, response_message)
                name == Get(response_message.function_call).name
            IN  IF err # "none"
                THEN /\ pc' = "idle"
                     /\ outcome' = err
                     /\ UNCHANGED <<fn_name, calls>>
                ELSE /\ pc' = "executing"
                     /\ outcome' = outcome
                     /\ fn_name' = name
                     /\ calls' = Append(calls,
                            [fn |-> MatchedFns(Get(functions), name)[1],
                             keys |-> JsonLoads(Get(response_message.function_call).arguments).keys,
                             status |-> "running"])
    /\ UNCHANGED <<functions, call_fn, call_kwargs, args, pre, user_message,
                   nreq, submits, requests>>
    /\ UNCHANGED <<two_vars, schema_vars, chat_vars, bot_vars>>

SetStatus(cs, status) == [cs EXCEPT ![Len(cs)].status = status]

\* variant of ExecReturn: the function message is appended to self.messages
\* but not to the list that is returned
ExecReturnNotEmitted(fn_response) ==
    /\ pc = "executing"
    /\ calls' = SetStatus(calls, "returned")
    /\ messages' = Append(messages, FunctionMessage(fn_name, fn_response))
    /\ response_messages' = response_messages
    /\ call_kwargs' =
           CallKwargs(Append(messages, FunctionMessage(fn_name, fn_response)),
                      functions, call_fn)
    /\ attempts' = 0
    /\ failures' = "none"
    /\ nreq' = nreq + 1
    /\ requests' = requests + 1
    /\ pc' = "pending"
    /\ UNCHANGED <<functions, call_fn, fn_name, outcome, args, pre,
                   user_message, submits>>
    /\ UNCHANGED <<two_vars, schema_vars, chat_vars, bot_vars>>

\* chatgpt.py:227-231 and :193-198: the executable returns; its result is
\* appended as a function message and the next request is built
ExecReturn(fn_response) ==
    /\ pc = "executing"
    /\ calls' = SetStatus(calls, "returned")
    /\ messages' =
           MessagesAfterRequest(
               Append(messages, FunctionMessage(fn_name, fn_response)),
               functions, call_fn)
    /\ response_messages' =
           Append(response_messages, FunctionMessage(fn_name, fn_response))
    /\ call_kwargs' =
           CallKwargs(Append(messages, FunctionMessage(fn_name, fn_response)),
                      functions, call_fn)
    /\ attempts' = 0
    /\ failures' = "none"
    /\ nreq' = nreq + 1
    /\ requests' = requests + 1
    /\ pc' = "pending"
    /\ UNCHANGED <<functions, call_fn, fn_name, outcome, args, pre,
                   user_message, submits>>
    /\ UNCHANGED <<two_vars, schema_vars, chat_vars, bot_vars>>

\* variant of ExecRaise: the failure is caught, reported to the service as
\* a function message, and the loop goes on
ExecRaiseSwallowed ==
    /\ pc = "executing"
    /\ calls' = SetStatus(calls, "raised")
    /\ messages' = Append(messages, FunctionMessage(fn_name, "error"))
    /\ response_messages' =
           Append(response_messages, FunctionMessage(fn_name, "error"))
    /\ call_kwargs' = CallKwargs(messages', functions, call_fn)
    /\ attempts' = 0
    /\ failures' = "none"
    /\ nreq' = nreq + 1
    /\ requests' = requests + 1
    /\ pc' = "pending"
    /\ UNCHANGED <<functions, call_fn, fn_name, outcome, args, pre,
                   user_message, submits>>
    /\ UNCHANGED <<two_vars, schema_vars, chat_vars, bot_vars>>

\* chatgpt.py:227: the executable raises; nothing catches it
ExecRaise ==
    /\ pc = "executing"
    /\ calls' = SetStatus(calls, "raised")
    /\ pc' = "idle"
    /\ outcome' = "ExecError"
    /\ UNCHANGED <<messages, functions, call_fn, call_kwargs, attempts,
                   response_messages, fn_name, args, pre, user_message,
                   nreq, failures, submits, requests>>
    /\ UNCHANGED <<two_vars, schema_vars, chat_vars, bot_vars>>

----------------------------------------------------------------------------
(* Specification *)

Next ==
    \/ \E api_key \in BOOLEAN, msgs \in PriorMessages,
          system_prompt \in SystemPrompts, fns \in FunctionLists,
          forced \in ForcedNames :
            Construct(api_key, msgs, system_prompt, fns, forced)
    \/ \E text \in Texts : Submit(text)
    \/ \E kind \in FailureKinds : AttemptFail(kind)
    \/ \E response_message \in PlainResponses \cup CallResponses :
            AttemptSucceed(response_message)
    \/ \E fn_response \in FnResults : ExecReturn(fn_response)
    \/ ExecRaise

Spec == Init /\ [][Next]_vars

----------------------------------------------------------------------------
(* Two engines *)

(* Two ChatGPT objects built by one caller.  self.messages is a reference  *)
(* to a list object: the list __init__ creates for a system prompt         *)
(* (chatgpt.py:156), or the very list the caller passed (chatgpt.py:158).  *)

Engines == {"A", "B"}

\* the list created for an engine built from a system prompt
OwnList(e) == IF e = "A" THEN "LA" ELSE "LB"

\* list objects of the caller: two lists of equal content
CallerLists == {"L", "M"}

ListIds == CallerLists \cup {OwnList(e) : e \in Engines}

\* contents the caller's lists start with
CallerContents == {<<>>, <<SystemMsg("p"), UserMsg("hi"), AssistantMsg("a")>>}

\* self.messages of engine e
Transcript(e) == lists[ref[e]]

\* chatgpt.py:155-158 for both engines: each is built from a system prompt
\* or from one of the caller's lists
TwoConstructed ==
    /\ \E content \in CallerContents :
          lists = [l \in ListIds |->
                      IF l \in CallerLists THEN content ELSE <<SystemMsg("p")>>]
    /\ \E r \in [Engines -> ListIds] :
          /\ \A e \in Engines : r[e] \in CallerLists \cup {OwnList(e)}
          /\ ref = r
    /\ pc2 = [e \in Engines |-> "idle"]
    /\ actor = ""
    /\ before = [e \in Engines |-> lists[ref[e]]]

\* the step of engine e appends message m to its self.messages
AppendOn(e, m) ==
    /\ lists' = [lists EXCEPT ![ref[e]] = Append(@, m)]
    /\ actor' = e
    /\ before' = [x \in Engines |-> lists[ref[x]]]
    /\ UNCHANGED ref

\* chatgpt.py:186-188
SubmitOn(e, text) ==
    /\ pc2[e] = "idle"
    /\ Len(Transcript(e)) + 2 <= MaxListLen
    /\ AppendOn(e, UserMsg(text))
    /\ pc2' = [pc2 EXCEPT ![e] = "pending"]
    /\ UNCHANGED <<engine_vars, schema_vars, chat_vars, bot_vars>>

\* chatgpt.py:198-206: the response is appended; a plain answer ends the
\* call, a call of the registered function "f" goes on to its executable
RespondOn(e, response_message) ==
    /\ pc2[e] = "pending"
    /\ ~IsNone(response_message.function_call)
          => Len(Transcript(e)) + 3 <= MaxListLen
    /\ AppendOn(e, response_message)
    /\ pc2' = [pc2 EXCEPT ![e] = IF IsNone(response_message.function_call)
                                  THEN "idle" ELSE "executing"]
    /\ UNCHANGED <<engine_vars, schema_vars, chat_vars, bot_vars>>

\* chatgpt.py:227-231
ReturnOn(e, fn_response) ==
    /\ pc2[e] = "executing"
    /\ AppendOn(e, FunctionMessage("f", fn_response))
    /\ pc2' = [pc2 EXCEPT ![e] = "pending"]
    /\ UNCHANGED <<engine_vars, schema_vars, chat_vars, bot_vars>>

TwoNext ==
    \/ \E e \in Engines, text \in Texts : SubmitOn(e, text)
    \/ \E e \in Engines,
          response_message \in PlainResponses \cup {AssistantCall("f", "{context}")} :
            RespondOn(e, response_message)
    \/ \E e \in Engines, fn_response \in FnResults : ReturnOn(e, fn_response)

TwoInit ==
    TwoConstructed /\ EngineParked /\ SchemaParked /\ ChatParked /\ BotParked

SpecTwo == TwoInit /\ [][TwoNext]_vars

----------------------------------------------------------------------------
(* Function schema: FunctionParameterProperties.json, FunctionParameters.json *)

\* parameters a function may declare; names may repeat within one function
ParamChoices ==
    {Param(n, t, r) : n \in {"context", "note"}, t \in {"string", "integer"},
                      r \in BOOLEAN}

\* parameter lists of at most MaxParams parameters
ParamLists == UNION {[1..n -> ParamChoices] : n \in 0..MaxParams}

\* chatgpt.py:31-37
ParamJson(x) == [type |-> x.type, description |-> x.description]

\* chatgpt.py:63  {x.name: x.json for x in self.properties}: a dict, in
\* which a later parameter of the same name replaces the earlier one
RECURSIVE PropertiesDict(_)
PropertiesDict(props) ==
    IF props = <<>> THEN <<>>
    ELSE LET front == PropertiesDict(SubSeq(props, 1, Len(props) - 1))
             x == props[Len(props)]
         IN  [n \in DOMAIN front \cup {x.name} |->
                 IF n = x.name THEN ParamJson(x) ELSE front[n]]

\* variant of RequiredNames: the required flag is not looked at
RequiredNamesAll(props) == [i \in 1..Len(props) |-> props[i].name]

\* chatgpt.py:64  [x.name for x in self.properties if x.required]
RequiredNames(props) ==
    [i \in 1..Len(SelectSeq(props, LAMBDA x : x.required)) |->
        SelectSeq(props, LAMBDA x : x.required)[i].name]

\* chatgpt.py:58-65
ParametersJson(props) ==
    [type |-> "object",
     properties |-> PropertiesDict(props),
     required |-> RequiredNames(props)]

\* a FunctionParameters object is built (chatgpt.py:54-56)
SchemaInit ==
    /\ properties \in ParamLists
    /\ schema = None
    /\ EngineParked /\ TwoParked /\ ChatParked /\ BotParked

\* its json property is read
Describe ==
    /\ IsNone(schema)
    /\ schema' = Some(ParametersJson(properties))
    /\ UNCHANGED <<properties, engine_vars, two_vars, chat_vars, bot_vars>>

SchemaNext == Describe

SpecSchema == SchemaInit /\ [][SchemaNext]_vars

----------------------------------------------------------------------------
(* Chat endpoint of qa/api.py, for one (user, bot) pair whose bot, user   *)
(* and documents exist                                                    *)

Queries == {"hi", "yo"}

\* contexts the service passes to update_user_context
Contexts == {"c1", "c2"}

\* api.py:251-252  the bot's prompt with the placeholders filled in
BotPrompt(context) == "bot " \o context

\* api.py:258-266 and 271-293: the message list ChatGPT is constructed with
ChatTranscript(h, context) ==
    IF ~IsNone(h) /\ Len(Get(h)) > 0
    THEN InitializeMessages(
             Some(<<SystemMsg(BotPrompt(context))>> \o Get(h)), None).messages
    ELSE InitializeMessages(None, Some(BotPrompt(context))).messages

\* the messages llm(request.query) appends when the service answers at once
PlainTurn(query) == <<UserMsg(query), AssistantMsg("a")>>

\* ... and when it first calls update_user_context, which returns the context
UpdateTurn(query, context) ==
    <<UserMsg(query),
      AssistantCall("update_user_context", context),
      FunctionMessage("update_user_context", context),
      AssistantMsg("a")>>

ChatInit ==
    /\ history = None
    /\ user_context = "u0"
    /\ given = <<>>
    /\ chats = 0
    /\ EngineParked /\ TwoParked /\ SchemaParked /\ BotParked

\* api.py:226-299, the service answers without a function call
ChatPlain(query) ==
    /\ chats < MaxChats
    /\ chats' = chats + 1
    /\ given' = ChatTranscript(history, user_context)
    /\ history' = Some(given' \o PlainTurn(query))
    /\ UNCHANGED <<user_context, engine_vars, two_vars, schema_vars, bot_vars>>

\* api.py:226-299, the service calls update_user_context (api.py:208-219)
ChatUpdate(query, context) ==
    /\ chats < MaxChats
    /\ chats' = chats + 1
    /\ given' = ChatTranscript(history, user_context)
    /\ user_context' = context
    /\ history' = Some(given' \o UpdateTurn(query, context))
    /\ UNCHANGED <<engine_vars, two_vars, schema_vars, bot_vars>>

\* api.py:226-294, llm(request.query) raises: line 297 is not reached
ChatFail(query) ==
    /\ chats < MaxChats
    /\ chats' = chats + 1
    /\ given' = ChatTranscript(history, user_context)
    /\ history' = IF ~IsNone(history) /\ Len(Get(history)) > 0
                  THEN history ELSE Some(<<>>)
    /\ UNCHANGED <<user_context, engine_vars, two_vars, schema_vars, bot_vars>>

ChatNext ==
    \/ \E query \in Queries : ChatPlain(query)
    \/ \E query \in Queries, context \in Contexts : ChatUpdate(query, context)
    \/ \E query \in Queries : ChatFail(query)

SpecChat == ChatInit /\ [][ChatNext]_vars

----------------------------------------------------------------------------
(* A call whose requests are all answered and whose executables all return *)

\* responses the two registered functions can be dispatched on, and a
\* plain answer
LiveResponses ==
    PlainResponses \cup {AssistantCall(n, "{context}") : n \in CallNames}

\* the engine after ChatGPT(functions=[f, g], ...) (chatgpt.py:120-142)
LiveInit ==
    /\ pc = "idle"
    /\ messages \in {<<>>, <<SystemMsg("p")>>}
    /\ functions = Some(<<FnF, FnG>>)
    /\ call_fn \in {None, Some("f")}
    /\ call_kwargs = NoRequest
    /\ attempts = 0
    /\ response_messages = <<>>
    /\ fn_name = ""
    /\ outcome = "none"
    /\ args = NoArgs
    /\ pre = <<>>
    /\ user_message = ""
    /\ nreq = 0
    /\ calls = <<>>
    /\ failures = "none"
    /\ submits = 0
    /\ requests = 0
    /\ TwoParked /\ SchemaParked /\ ChatParked /\ BotParked

Respond == \E response_message \in LiveResponses : AttemptSucceed(response_message)

Return == \E fn_response \in FnResults : ExecReturn(fn_response)

LiveNext ==
    \/ \E text \in Texts : Submit(text)
    \/ Respond
    \/ Return

\* every request is answered, every executable returns
SpecLive ==
    LiveInit /\ [][LiveNext]_vars /\ WF_vars(Respond) /\ WF_vars(Return)

----------------------------------------------------------------------------
(* Bot creation: create_bot of qa/api.py *)

\* identifiers uuid4 may give
BotIds == {"b1", "b2", "b3"}

\* system prompts a client may post, each as the sequence of its pieces: the
\* placeholders and the text around them
BotPrompts ==
    { <<"hello">>,
      <<"{user_context}">>,
      <<"{document_context}">>,
      <<"about ", "{user_context}", " and ", "{document_context}">>,
      <<"{document_context}", "{user_context}">> }

\* the Python test  piece in system_prompt
Contains(system_prompt, piece) ==
    \E i \in 1..Len(system_prompt) : system_prompt[i] = piece

\* api.py:200  the condition under which the 400 error is raised
LacksPlaceholder(system_prompt) ==
    \/ ~Contains(system_prompt, "{user_context}")
    \/ ~Contains(system_prompt, "{document_context}")

\* api.py:45-52  an identifier that is not a key of the store
UniqueIds(db) == {id \in BotIds : \A entry \in db : entry.id # id}

BotInit ==
    /\ bots = {}
    /\ bots_before = {}
    /\ bot_result = "none"
    /\ EngineParked /\ TwoParked /\ SchemaParked /\ ChatParked

\* api.py:189-205: the entry is written (line 197), then the prompt is
\* tested (line 200); the store is closed on both ways out of the with block
CreateBot(bot_id, system_prompt) ==
    /\ Cardinality(bots) < MaxBots
    /\ bot_id \in UniqueIds(bots)
    /\ bots_before' = bots
    /\ bots' = bots \cup {[id |-> bot_id, system_prompt |-> system_prompt]}
    /\ bot_result' = IF LacksPlaceholder(system_prompt) THEN "400" ELSE "created"
    /\ UNCHANGED <<engine_vars, two_vars, schema_vars, chat_vars>>

BotNext ==
    \E bot_id \in BotIds, system_prompt \in BotPrompts :
        CreateBot(bot_id, system_prompt)

SpecBot == BotInit /\ [][BotNext]_vars

----------------------------------------------------------------------------
(* Properties *)

Constructed == pc \in {"idle", "pending", "executing"}

IsCall(m) == m.role = "assistant" /\ ~IsNone(m.function_call)
IsAnswer(m) == m.role = "assistant" /\ IsNone(m.function_call)
IsResultOf(m, c) ==
    m.role = "function" /\ m.name = Some(Get(c.function_call).name)

\* the messages of one resolved turn: calls, each followed by its result,
\* and one closing answer
ResolvedTurn(t) ==
    /\ Len(t) >= 1
    /\ IsAnswer(Last(t))
    /\ \A i \in 1..Len(t) :
        \/ IsAnswer(t[i]) /\ i = Len(t)
        \/ IsCall(t[i]) /\ i < Len(t) /\ IsResultOf(t[i + 1], t[i])
        \/ t[i].role = "function" /\ i > 1 /\ IsCall(t[i - 1])
                                  /\ IsResultOf(t[i], t[i - 1])

CountIf(s, P(_)) == Cardinality({i \in 1..Len(s) : P(s[i])})
IsFunctionMsg(m) == m.role = "function"
IsAssistantMsg(m) == m.role = "assistant"
HasReturned(c) == c.status = "returned"

\* C1: after a __call__ that returns normally the transcript is the
\* transcript before the call, then the user message, then assistant
\* messages of which every one carrying a function call is followed by
\* exactly one function message named after the called function, ending in
\* an assistant message without function call.
C1_TranscriptAfterSubmit ==
    (pc = "idle" /\ outcome = "returned") =>
        /\ Len(messages) >= Len(pre) + 2
        /\ SubSeq(messages, 1, Len(pre)) = pre
        /\ messages[Len(pre) + 1] = UserMsg(user_message)
        /\ ResolvedTurn(SubSeq(messages, Len(pre) + 2, Len(messages)))

C1_Witness ==
    /\ pc = "idle" /\ outcome = "returned"
    /\ submits = 2 /\ Len(pre) > 0
    /\ Len(messages) = Len(pre) + 4

\* C2: a request carries the forced-call directive exactly when a forced
\* function is configured and the last transcript entry is the user message
\* this __call__ appended; that is the first request of the call, never a
\* request built after a function result was appended.
C2_ForcedDirective ==
    pc = "pending" =>
        /\ ~IsNone(call_kwargs.function_call)
              <=> (~IsNone(call_fn) /\ Len(messages) = Len(pre) + 1)
        /\ ~IsNone(call_kwargs.function_call)
              => /\ call_kwargs.function_call = Some([name |-> Get(call_fn)])
                 /\ nreq = 1
        /\ nreq > 1 => /\ Last(messages).role = "function"
                       /\ IsNone(call_kwargs.function_call)

C2_Witness ==
    /\ pc = "pending" /\ nreq = 2 /\ ~IsNone(call_fn)
    /\ IsNone(call_kwargs.function_call)

\* C3: in every transcript of a constructed engine at most one system
\* message exists, and it is the first entry.
C3_SingleSystemFirst ==
    Constructed => \A i \in 1..Len(messages) :
                        messages[i].role = "system" => i = 1

\* C4: at most 3 attempts are made per request; when all fail the third
\* failure raises the retry error; an attempt that succeeds ends the request
\* and no further attempt is made for it.
C4_ThreeAttempts ==
    /\ [](/\ attempts <= 3
          /\ pc = "pending" => attempts < 3
          /\ outcome = "RetryError"
                => pc = "idle" /\ attempts = 3 /\ failures # "none"
          /\ (attempts = 3 /\ failures # "none")
                => pc = "idle" /\ outcome = "RetryError")
    /\ [][attempts' # attempts =>
            \/ pc = "pending" /\ attempts' = attempts + 1
            \/ pc' = "pending" /\ attempts' = 0]_vars

C4_Witness ==
    pc = "idle" /\ outcome = "RetryError" /\ attempts = 3
                /\ failures = "transient"

\* C5: a failure that retrying cannot cure is surfaced after exactly one
\* attempt.
C5_NonRetryableSurfaced ==
    failures = "auth" => pc = "idle" /\ attempts = 1 /\ outcome # "none"

\* the response names a function the registry does not hold
NamesUnregistered(m) ==
    /\ IsCall(m)
    /\ \/ IsNone(functions)
       \/ \A i \in 1..Len(Get(functions)) :
              Get(functions)[i].name # Get(m.function_call).name

C7_NoPartialDispatch ==
    /\ CountIf(response_messages, IsFunctionMsg) = CountIf(calls, HasReturned)
    /\ Constructed =>
          CountIf(messages, IsFunctionMsg)
              = CountIf(pre, IsFunctionMsg) + CountIf(calls, HasReturned)
    /\ pc = "executing" => IsCall(Last(messages))
    /\ outcome = "ExecError" =>
          /\ pc = "idle"
          /\ Last(calls).status = "raised"
          /\ CountIf(calls, HasReturned) = Len(calls) - 1
          /\ IsCall(Last(messages))
          /\ messages = Append(call_kwargs.messages, Last(response_messages))
          /\ nreq = CountIf(response_messages, IsAssistantMsg)

C7_Witness ==
    pc = "idle" /\ outcome = "ExecError" /\ Len(calls) = 2

\* C8: construction with both a system prompt and a message list fails with
\* a configuration error, whatever the two values are.
C8_BothRejected ==
    (pc # "new" /\ ~IsNone(args.messages) /\ ~IsNone(args.system_prompt)) =>
        /\ pc = "ctor_failed"
        /\ outcome \in ConfigErrors
        /\ args.api_key => outcome = "PromptAndMessages"

C8_Witness ==
    /\ pc = "ctor_failed" /\ outcome = "PromptAndMessages"
    /\ args.messages = Some(<<>>) /\ args.system_prompt = Some("")

\* C9: construction with a forced function name fails with a configuration
\* error when no function list is given or the list holds no function of
\* that name, so a constructed engine with a forced name has it registered.
C9_ForcedRegistered ==
    /\ (/\ pc # "new"
        /\ ~IsNone(args.call_fn)
        /\ \/ IsNone(args.functions)
           \/ \A i \in 1..Len(Get(args.functions)) :
                  Get(args.functions)[i].name # Get(args.call_fn))
          => pc = "ctor_failed" /\ outcome \in ConfigErrors
    /\ (Constructed /\ ~IsNone(call_fn))
          => /\ ~IsNone(functions)
             /\ \E i \in 1..Len(Get(functions)) :
                    Get(functions)[i].name = Get(call_fn)

C9_Witness ==
    /\ pc = "ctor_failed" /\ outcome = "ForcedNotFound"
    /\ args.call_fn = Some("g") /\ args.functions = Some(<<FnF>>)

\* C10: a function list in which two functions share a name is rejected at
\* construction, so no constructed engine holds one.
C10_DuplicateRejected ==
    (Constructed /\ ~IsNone(functions)) =>
        \A i, j \in 1..Len(Get(functions)) :
            Get(functions)[i].name = Get(functions)[j].name => i = j

\* C11: an executable is never invoked with an argument set that misses a
\* parameter declared required or holds a key that is not a declared
\* parameter: such a payload fails before the executable is invoked.
C11_ArgumentsValidated ==
    \A i \in 1..Len(calls) :
        /\ Required(calls[i].fn) \subseteq calls[i].keys
        /\ calls[i].keys \subseteq Declared(calls[i].fn)

\* C12: __call__ returns, in order, exactly the messages it appended to the
\* transcript after the user message; the returned list is not empty and
\* ends in an assistant message without function call.
C12_ReturnedMessages ==
    (pc = "idle" /\ outcome = "returned") =>
        /\ response_messages = SubSeq(messages, Len(pre) + 2, Len(messages))
        /\ Len(response_messages) >= 1
        /\ IsAnswer(Last(response_messages))

C12_Witness ==
    /\ pc = "idle" /\ outcome = "returned"
    /\ Len(response_messages) = 3
    /\ response_messages[2].role = "function"

\* C13: building a request changes neither the stored transcript nor the
\* configuration: the transcript a request was built from is the stored
\* one, no stored user, system or function message carries a function call,
\* and functions and the forced name stay as constructed.
C13_RequestLeavesState ==
    /\ [](/\ pc = "pending" => messages = call_kwargs.messages
          /\ \A i \in 1..Len(messages) :
                messages[i].role # "assistant"
                    => IsNone(messages[i].function_call))
    /\ [][pc # "new" => functions' = functions /\ call_fn' = call_fn]_vars

C13_Witness ==
    /\ pc = "pending"
    /\ call_kwargs.function_call = Some([name |-> "f"])
    /\ IsNone(Last(messages).function_call)

\* C14: two engines share no mutable state: a step of one engine leaves
\* the transcript of the other engine as it was.
C14_EnginesIndependent ==
    \A e \in DOMAIN pc2 : e # actor => lists[ref[e]] = before[e]

\* C15: a request holds the key "functions" exactly when the registry is
\* not empty; with no list or an empty list the key is left out.
C15_FunctionsKey ==
    pc = "pending" =>
        (~IsNone(call_kwargs.functions)
            <=> (~IsNone(functions) /\ Len(Get(functions)) > 0))

\* number of parameters flagged required among the first i
RequiredUpTo(i) == Cardinality({k \in 1..i : properties[k].required})

\* C16: the schema has type "object", a properties map with exactly one
\* entry per declared parameter name, and a required array that is exactly
\* the parameters flagged required, in declared order.
C16_Schema ==
    ~IsNone(schema) =>
        /\ Get(schema).type = "object"
        /\ DOMAIN Get(schema).properties
              = {properties[i].name : i \in 1..Len(properties)}
        /\ \A i \in 1..Len(properties) :
              (\A k \in (i + 1)..Len(properties) :
                    properties[k].name # properties[i].name)
                 => Get(schema).properties[properties[i].name]
                       = [type |-> properties[i].type,
                          description |-> properties[i].description]
        /\ Len(Get(schema).required) = RequiredUpTo(Len(properties))
        /\ \A i \in 1..Len(properties) :
              properties[i].required
                 => Get(schema).required[RequiredUpTo(i)] = properties[i].name

C16_Witness ==
    /\ properties = <<Param("context", "string", TRUE),
                      Param("note", "string", FALSE)>>
    /\ ~IsNone(schema)
    /\ Get(schema).required = <<"context">>
    /\ DOMAIN Get(schema).properties = {"context", "note"}

IsSystemMsg(m) == m.role = "system"

\* C17: the transcript the chat endpoint gives to the engine contains
\* exactly one system-role message, and that message is first.
C17_OneSystemMessage ==
    chats > 0 =>
        /\ Len(given) >= 1
        /\ given[1].role = "system"
        /\ CountIf(given, IsSystemMsg) = 1

\* C18: the transcript only grows by appends: before any step it is a
\* prefix of the transcript after the step, on failing calls too.
C18_AppendOnly ==
    [][/\ Len(messages') >= Len(messages)
       /\ SubSeq(messages', 1, Len(messages)) = messages]_vars

\* a call that failed after one completed function call: the user message,
\* the assistant's request and the function result are still there
C18_Witness ==
    /\ pc = "idle"
    /\ outcome = "RetryError"
    /\ Len(messages) = Len(pre) + 3
    /\ messages[Len(pre) + 1].role = "user"
    /\ Last(messages).role = "function"

\* C19: when two registered functions share the name the service asks to
\* call, the call fails with the "Multiple functions" error, and no function
\* message is appended.
C19_AmbiguityError ==
    (/\ pc = "idle"
     /\ ~IsNone(functions)
     /\ Len(response_messages) > 0
     /\ IsCall(Last(response_messages))
     /\ Len(MatchedFns(Get(functions),
                       Get(Last(response_messages).function_call).name)) > 1)
        => /\ outcome = "MultipleFound"
           /\ Last(messages) = Last(response_messages)

\* C20: when every request is answered and every executable returns, the
\* call goes on, one request per round trip, for as long as the responses
\* carry a function call; it returns at the first response without one,
\* having sent no request after it, and it does return once the service
\* sends such a response.
C20_Termination ==
    /\ [](pc = "pending" =>
            /\ CountIf(response_messages, IsAnswer) = 0
            /\ nreq = CountIf(response_messages, IsAssistantMsg) + 1)
    /\ [](pc = "executing" =>
            /\ CountIf(response_messages, IsAnswer) = 0
            /\ nreq = CountIf(response_messages, IsAssistantMsg))
    /\ []((pc = "idle" /\ submits > 0) =>
            /\ outcome = "returned"
            /\ CountIf(response_messages, IsAnswer) = 1
            /\ IsAnswer(Last(response_messages))
            /\ nreq = CountIf(response_messages, IsAssistantMsg))
    /\ (pc = "pending" ~> (pc = "idle" /\ outcome = "returned"))

\* a call that returned after as many round trips as the model allows
C20_Witness ==
    /\ pc = "idle"
    /\ outcome = "returned"
    /\ nreq = MaxRequests
    /\ Len(response_messages) = 2 * MaxRequests - 1

\* C21: the lookup comes before the decoding of the arguments: a response
\* that names a function absent from the supplied list fails with the
\* not-found error, also when its arguments cannot be decoded.
C21_LookupBeforeDecode ==
    (/\ ~IsNone(functions)
     /\ response_messages # <<>>
     /\ NamesUnregistered(Last(response_messages)))
        => (pc = "idle" /\ outcome = "NotFound")

\* C22: an engine constructed from a system prompt and no message list has
\* a transcript of one entry, the system message with that prompt, whatever
\* the prompt string is.
C22_PromptAlone ==
    (/\ pc = "idle"
     /\ submits = 0
     /\ args # NoArgs
     /\ IsNone(args.messages)
     /\ ~IsNone(args.system_prompt))
        => messages = <<SystemMsg(Get(args.system_prompt))>>

\* C23: when create_bot answers with the 400 error the bot store is what
\* it was before the request.
C23_RejectedNotStored ==
    bot_result = "400" => bots = bots_before

====
